---- MODULE Spec2Model ----
(***************************************************************************)
(* A model of prefetchparser.py: the accessed-file list parser             *)
(* (parse_accessed_files), the FILETIME converter                          *)
(* (convert_windows_timestamp), the Prefetch decoder (parse_prefetch) and  *)
(* the batch loop (process_prefetch_files).                                *)
(*                                                                         *)
(* Representation.  A Python bytes object is a sequence of integers in     *)
(* 0..255.  A Python str is the sequence of its code points.  A Python int *)
(* that fits 32 bits is an integer; a 64-bit one (a FILETIME, a file       *)
(* reference) is the sequence of its eight base-256 digits, least          *)
(* significant first, because TLC's integers are 32 bits wide.             *)
(***************************************************************************)
EXTENDS Integers, Sequences, FiniteSets, TLC

VARIABLES
    \* parse_accessed_files
    buf,            \* the argument `data` as passed by the caller
    data,           \* the local `data` (the part of buf not yet consumed)
    files,          \* the local `files`
    afpc,           \* "idle" | "loop" | "returned" | "raised"
    recs,           \* how buf was built: the complete records' samples
    tail,           \* how buf was built: what follows the complete records
    \* convert_windows_timestamp
    timestamp,      \* the argument, eight base-256 digits
    ts_out,         \* the returned string
    tspc,           \* "idle" | "call" | "returned" | "raised"
    \* process_prefetch_files
    disk,           \* the files of the input folder, in os.walk order
    prefetch_files, \* the discovered paths (indices into disk)
    cursor,         \* position of the for loop of line 109
    prefetch_data,  \* the local `prefetch_data`
    last,           \* the latest parse_prefetch call: its file and outcome
    bpc             \* "idle" | "walk" | "loop" | "done" | "aborted"

vars == <<buf, data, files, afpc, recs, tail, timestamp, ts_out, tspc,
          disk, prefetch_files, cursor, prefetch_data, last, bpc>>
afVars == <<buf, data, files, afpc, recs, tail>>
tsVars == <<timestamp, ts_out, tspc>>
bVars == <<disk, prefetch_files, cursor, prefetch_data, last, bpc>>

-----------------------------------------------------------------------------
(* Python primitives *)

Min(a, b) == IF a < b THEN a ELSE b

\* s[a:b] for 0 <= a, 0 <= b: both ends are clamped to len(s).
PySlice_PastEnd(s, a, b) ==
    LET start == Min(a, Len(s))
        stop  == Min(b, Len(s) + 4)
    IN  IF start >= stop THEN <<>>
        ELSE [i \in 1..(stop - start) |->
                 IF start + i <= Len(s) THEN s[start + i] ELSE 65]

PySlice(s, a, b) ==
    LET start == Min(a, Len(s))
        stop  == Min(b, Len(s))
    IN  IF start >= stop THEN <<>> ELSE SubSeq(s, start + 1, stop)

\* s[a:]
PySliceFrom(s, a) == PySlice(s, a, Len(s))

\* struct.unpack('<I', b) on a 4-byte b
UnpackU32(b) == b[1] + 256 * b[2] + 65536 * b[3] + 16777216 * b[4]

\* struct.pack('<I', n)
PackU32(n) ==
    <<n % 256, (n \div 256) % 256, (n \div 65536) % 256, (n \div 16777216) % 256>>

IsHighSurrogate(u) == u >= 55296 /\ u <= 56319
IsLowSurrogate(u)  == u >= 56320 /\ u <= 57343

\* bytes.decode('utf-16le', errors='ignore') from byte index i (0-based):
\* a lone or truncated code unit is dropped, a surrogate pair is one character.
RECURSIVE DecodeFrom(_, _)
DecodeFrom(b, i) ==
    IF Len(b) - i < 2 THEN <<>>
    ELSE LET u == b[i + 1] + 256 * b[i + 2] IN
         IF IsHighSurrogate(u) THEN
             IF Len(b) - (i + 2) < 2 THEN <<>>
             ELSE LET v == b[i + 3] + 256 * b[i + 4] IN
                  IF IsLowSurrogate(v)
                  THEN <<65536 + (u - 55296) * 1024 + (v - 56320)>>
                           \o DecodeFrom(b, i + 4)
                  ELSE DecodeFrom(b, i + 2)
         ELSE IF IsLowSurrogate(u) THEN DecodeFrom(b, i + 2)
         ELSE <<u>> \o DecodeFrom(b, i + 2)

DecodeUtf16leIgnore(b) == DecodeFrom(b, 0)

\* str.strip('\x00'): NUL characters are removed at both ends.
StripValue(s) ==
    LET keep  == {i \in 1..Len(s) : s[i] # 0}
        first == CHOOSE i \in keep : \A j \in keep : i <= j
        final == CHOOSE i \in keep : \A j \in keep : i >= j
    IN  IF keep = {} THEN <<>> ELSE SubSeq(s, first, final)

\* The argument is evaluated once, as Python evaluates it.
StripNul(str) == CHOOSE r \in {StripValue(s) : s \in {str}} : TRUE

-----------------------------------------------------------------------------
(* parse_accessed_files, lines 84-90 *)

\* One pass of the loop body (lines 86-89) on a non-empty `data`.
\* struct.unpack('<I', ...) raises struct.error unless it is given 4 bytes.
LoopBody_SkipEmpty(d, fs) ==
    LET head == PySlice(d, 0, 4) IN
    IF Len(head) # 4 THEN [raised |-> TRUE, files |-> fs, data |-> d]
    ELSE LET file_length == UnpackU32(head)
             file_name == StripNul(DecodeUtf16leIgnore(
                              PySlice(d, 4, 4 + file_length)))
         IN  [raised |-> FALSE,
              files  |-> IF file_length = 0 THEN fs ELSE Append(fs, file_name),
              data   |-> PySliceFrom(d, 4 + file_length)]

LoopBody_NoPrefix(d, fs) ==
    LET head == PySlice(d, 0, 4) IN
    IF Len(head) # 4 THEN [raised |-> TRUE, files |-> fs, data |-> d]
    ELSE LET file_length == UnpackU32(head)
             file_name == StripNul(DecodeUtf16leIgnore(
                              PySlice(d, 4, 4 + file_length)))
         IN  [raised |-> FALSE,
              files  |-> Append(fs, file_name),
              data   |-> PySliceFrom(d, file_length)]

LoopBody(d, fs) ==
    LET head == PySlice(d, 0, 4) IN
    IF Len(head) # 4 THEN [raised |-> TRUE, files |-> fs, data |-> d]
    ELSE LET file_length == UnpackU32(head)
             file_name == StripNul(DecodeUtf16leIgnore(
                              PySlice(d, 4, 4 + file_length)))
         IN  [raised |-> FALSE,
              files  |-> Append(fs, file_name),
              data   |-> PySliceFrom(d, 4 + file_length)]

\* The whole call, as parse_prefetch uses it (line 47).
RECURSIVE parse_accessed_files_from(_, _)
parse_accessed_files_from(d, fs) ==
    IF d = <<>> THEN [raised |-> FALSE, files |-> fs]
    ELSE LET r == LoopBody(d, fs) IN
         IF r.raised THEN [raised |-> TRUE, files |-> fs]
         ELSE parse_accessed_files_from(r.data, r.files)

parse_accessed_files(d) == parse_accessed_files_from(d, <<>>)

\* Inputs.  Payload samples with the name Python gives each of them
\* (payload.decode('utf-16le', errors='ignore').strip('\x00')).
Samples == {
    [bytes |-> <<>>, name |-> <<>>],
    [bytes |-> <<65, 0>>, name |-> <<65>>],
    [bytes |-> <<66, 0>>, name |-> <<66>>],
    [bytes |-> <<65, 0, 0, 0>>, name |-> <<65>>],
    [bytes |-> <<0, 0, 65, 0>>, name |-> <<65>>],
    [bytes |-> <<65, 0, 66, 0>>, name |-> <<65, 66>>],
    [bytes |-> <<0, 216, 0, 220>>, name |-> <<65536>>],
    [bytes |-> <<0, 216, 65, 0>>, name |-> <<65>>],
    [bytes |-> <<0, 220, 65, 0>>, name |-> <<65>>],
    [bytes |-> <<65>>, name |-> <<>>],
    [bytes |-> <<65, 0, 66>>, name |-> <<65>>],
    [bytes |-> <<0, 0>>, name |-> <<>>],
    [bytes |-> <<65, 0, 0, 216>>, name |-> <<65>>] }

\* The largest number of complete records in a buffer.
MaxRecs == 2

\* 1 to 3 bytes that follow the last complete record.
TrailingBytes == { <<0>>, <<65>>, <<2, 0>>, <<0, 0, 0>>, <<1, 0, 65>> }

\* By how much a last record's declared length exceeds the bytes present.
Excess == { 1, 3, 65536 }

\* What follows the complete records: nothing, 1 to 3 stray bytes, or a
\* record whose declared length exceeds what is left.  Every byte string is
\* of one of these three shapes.
Tails ==
    {[kind |-> "none", bytes |-> <<>>, name |-> <<>>]}
    \cup {[kind |-> "stray", bytes |-> t, name |-> <<>>] : t \in TrailingBytes}
    \cup {[kind |-> "short",
           bytes |-> PackU32(Len(s.bytes) + x) \o s.bytes,
           name |-> s.name] : s \in Samples, x \in Excess}

RECURSIVE Concat(_)
Concat(rs) ==
    IF rs = <<>> THEN <<>>
    ELSE PackU32(Len(Head(rs).bytes)) \o Head(rs).bytes \o Concat(Tail(rs))

AFIdle ==
    /\ buf = <<>> /\ data = <<>> /\ files = <<>> /\ afpc = "idle"
    /\ recs = <<>> /\ tail = [kind |-> "none", bytes |-> <<>>, name |-> <<>>]

TSIdle ==
    /\ timestamp = <<>> /\ ts_out = "" /\ tspc = "idle"

BIdle ==
    /\ disk = <<>> /\ prefetch_files = <<>> /\ cursor = 0
    /\ prefetch_data = <<>> /\ bpc = "idle"
    /\ last = [file |-> 0, outcome |-> [kind |-> "return", value |-> "None", line |-> 0]]

AFInit ==
    /\ AFIdle /\ TSIdle /\ BIdle

\* The caller assembles the buffer, one complete record at a time.
AddRecord(S) ==
    /\ afpc = "idle"
    /\ Len(recs) < MaxRecs
    /\ \E s \in S : recs' = Append(recs, s)
    /\ UNCHANGED <<buf, data, files, afpc, tail, tsVars, bVars>>

\* The call, and line 84: data is bound to the argument, files = [].
Call(T) ==
    /\ afpc = "idle"
    /\ tail' \in T
    /\ buf' = Concat(recs) \o tail'.bytes
    /\ data' = buf'
    /\ files' = <<>>
    /\ afpc' = "loop"
    /\ UNCHANGED <<recs, tsVars, bVars>>

\* Lines 85-89: the loop condition holds and the body runs to its end.
Iterate ==
    /\ afpc = "loop"
    /\ data # <<>>
    /\ ~LoopBody(data, files).raised
    /\ files' = LoopBody(data, files).files
    /\ data' = LoopBody(data, files).data
    /\ UNCHANGED <<buf, afpc, recs, tail, tsVars, bVars>>

\* Line 86: struct.unpack raises struct.error on fewer than 4 bytes.
RaiseStructError ==
    /\ afpc = "loop"
    /\ data # <<>>
    /\ LoopBody(data, files).raised
    /\ afpc' = "raised"
    /\ UNCHANGED <<buf, data, files, recs, tail, tsVars, bVars>>

\* Lines 85, 90: the loop condition fails and files is returned.
Return ==
    /\ afpc = "loop"
    /\ data = <<>>
    /\ afpc' = "returned"
    /\ UNCHANGED <<buf, data, files, recs, tail, tsVars, bVars>>

Run == Iterate \/ RaiseStructError \/ Return

AFNext == AddRecord(Samples) \/ Call(Tails) \/ Run

SpecFiles == AFInit /\ [][AFNext]_vars

\* The same program on fewer inputs, for the termination property.
LiveSamples == {s \in Samples : s.bytes \in {<<>>, <<65, 0>>, <<66, 0>>, <<65, 0, 0, 0>>}}

LiveTails ==
    {t \in Tails :
        \/ t.kind = "none"
        \/ t.kind = "stray" /\ t.bytes \in {<<0>>, <<1, 0, 65>>}
        \/ t.kind = "short" /\ \E s \in LiveSamples, x \in {1, 65536} :
               t.bytes = PackU32(Len(s.bytes) + x) \o s.bytes}

LiveNext == AddRecord(LiveSamples) \/ Call(LiveTails) \/ Run

\* Python runs the loop without pause: a started call keeps taking steps.
SpecFilesFair == AFInit /\ [][LiveNext]_vars /\ WF_vars(Run)

AFTerminal == afpc \in {"returned", "raised"}

Names(rs) == [i \in 1..Len(rs) |-> rs[i].name]

-----------------------------------------------------------------------------
(* Python integers wider than 32 bits: eight base-256 digits, least
   significant first (the layout struct.unpack('<Q', ...) reads). *)

\* divmod(x, d) for 0 < d < 2^23, by long division from the top digit.
RECURSIVE DivStep(_, _, _, _, _)
DivStep(x, d, i, rem, q) ==
    IF i = 0 THEN [q |-> q, r |-> rem]
    ELSE DivStep(x, d, i - 1, (rem * 256 + x[i]) % d,
                 [q EXCEPT ![i] = (rem * 256 + x[i]) \div d])

BigDivMod(x, d) == DivStep(x, d, Len(x), 0, [i \in 1..Len(x) |-> 0])

\* x * m + a for m < 2^23, a < 2^23; the inputs keep the result in 64 bits.
RECURSIVE MulStep(_, _, _, _, _)
MulStep(x, m, i, carry, out) ==
    IF i > Len(x) THEN out
    ELSE MulStep(x, m, i + 1, (x[i] * m + carry) \div 256,
                 [out EXCEPT ![i] = (x[i] * m + carry) % 256])

BigMulAdd(x, m, a) == MulStep(x, m, 1, a, x)

BigFromInt(n) ==
    <<n % 256, (n \div 256) % 256, (n \div 65536) % 256, n \div 16777216,
      0, 0, 0, 0>>

\* The value of a digit sequence below 2^31.
BigToInt(x) == x[1] + 256 * x[2] + 65536 * x[3] + 16777216 * x[4]

-----------------------------------------------------------------------------
(* convert_windows_timestamp, lines 71-72 *)

\* timestamp // 10
FloorDiv10_By100(t) == BigDivMod(t, 100).q

FloorDiv10(t) == BigDivMod(t, 10).q

\* timedelta(microseconds=us): normalised to days, seconds, microseconds.
Timedelta(us) ==
    LET a == BigDivMod(us, 1000000)
        b == BigDivMod(a.q, 86400)
    IN  [days |-> BigToInt(b.q), seconds |-> b.r, microseconds |-> a.r]

\* datetime(1601, 1, 1).toordinal() and date.max.toordinal()
EpochOrdinal == 584389
MaxOrdinal == 3652059

DaysInMonth == <<31, 28, 31, 30, 31, 30, 31, 31, 30, 31, 30, 31>>
DaysBeforeMonth == <<0, 31, 59, 90, 120, 151, 181, 212, 243, 273, 304, 334>>

\* date.fromordinal(n): the proleptic Gregorian date of ordinal n.
Ord2ymd(n) ==
    LET n0   == n - 1
        n400 == n0 \div 146097
        r1   == n0 % 146097
        n100 == r1 \div 36524
        r2   == r1 % 36524
        n4   == r2 \div 1461
        r3   == r2 % 1461
        n1   == r3 \div 365
        r4   == r3 % 365
        year == n400 * 400 + 1 + n100 * 100 + n4 * 4 + n1
        leapyear == n1 = 3 /\ (n4 # 24 \/ n100 = 3)
        month == (r4 + 50) \div 32
        preceding == DaysBeforeMonth[month]
                         + (IF month > 2 /\ leapyear THEN 1 ELSE 0)
        month2 == IF preceding > r4 THEN month - 1 ELSE month
        preceding2 == IF preceding > r4
                      THEN preceding - (DaysInMonth[month2]
                               + (IF month2 = 2 /\ leapyear THEN 1 ELSE 0))
                      ELSE preceding
    IN  IF n1 = 4 \/ n100 = 4
        THEN [year |-> year - 1, month |-> 12, day |-> 31]
        ELSE [year |-> year, month |-> month2, day |-> r4 - preceding2 + 1]

Digit == <<"0", "1", "2", "3", "4", "5", "6", "7", "8", "9">>
Pad2(n) == Digit[((n \div 10) % 10) + 1] \o Digit[(n % 10) + 1]
Pad4(n) == Pad2(n \div 100) \o Pad2(n % 100)

\* dt.strftime('%Y-%m-%d %H:%M:%S')
Strftime(dt) ==
    Pad4(dt.year) \o "-" \o Pad2(dt.month) \o "-" \o Pad2(dt.day) \o " "
        \o Pad2(dt.hour) \o ":" \o Pad2(dt.minute) \o ":" \o Pad2(dt.second)

\* datetime(1601, 1, 1) + td: OverflowError outside date.min .. date.max.
DatetimeAdd(td) ==
    LET ordinal == EpochOrdinal + td.days
        ymd == Ord2ymd(ordinal)
    IN  IF ordinal > 0 /\ ordinal <= MaxOrdinal
        THEN [raised |-> FALSE,
              year |-> ymd.year, month |-> ymd.month, day |-> ymd.day,
              hour |-> td.seconds \div 3600,
              minute |-> (td.seconds % 3600) \div 60,
              second |-> (td.seconds % 3600) % 60]
        ELSE [raised |-> TRUE]

convert_windows_timestamp(t) ==
    LET dt == DatetimeAdd(Timedelta(FloorDiv10(t)))
    IN  IF dt.raised THEN [raised |-> TRUE, value |-> ""]
        ELSE [raised |-> FALSE, value |-> Strftime(dt)]

\* Inputs: FILETIME values by day, second of the day and 100 ns tick.
DaySamples ==
    (0..400) \cup {1154, 1155, 1460, 1461, 36217, 36218, 134773, 134774,
                   145789, 145790, 146096, 146097, 155534, 3067670, 3067671,
                   21350397}
SecondSamples == {0, 1, 59, 60, 3599, 3600, 43200, 86399}
TickSamples == {0, 9, 10, 9999999}

Encode(d, sec, tick) ==
    BigMulAdd(BigMulAdd(BigMulAdd(BigFromInt(d), 86400, sec),
                        10000, tick \div 1000),
              1000, tick % 1000)

RawInputs ==
    {Encode(d, sec, tick) :
        d \in DaySamples, sec \in SecondSamples, tick \in TickSamples}
    \cup {<<255, 255, 255, 255, 255, 255, 255, 255>>}

TSInit ==
    /\ timestamp \in RawInputs
    /\ ts_out = ""
    /\ tspc = "call"
    /\ AFIdle /\ BIdle

\* Lines 71-72 run to the return.
ConvertReturn ==
    /\ tspc = "call"
    /\ ~convert_windows_timestamp(timestamp).raised
    /\ ts_out' = convert_windows_timestamp(timestamp).value
    /\ tspc' = "returned"
    /\ UNCHANGED <<timestamp, afVars, bVars>>

\* Line 71: the sum is past date.max and OverflowError is raised.
ConvertRaise ==
    /\ tspc = "call"
    /\ convert_windows_timestamp(timestamp).raised
    /\ tspc' = "raised"
    /\ UNCHANGED <<timestamp, ts_out, afVars, bVars>>

TSNext == ConvertReturn \/ ConvertRaise

SpecTime == TSInit /\ [][TSNext]_vars

-----------------------------------------------------------------------------
(* struct.unpack *)

\* A format is a sequence of items [code, count]: "s" is count bytes kept as
\* one value, "x" is count pad bytes, "I" a 32-bit and "Q" a 64-bit unsigned
\* integer, little-endian.
Item(code, count) == [code |-> code, count |-> count]

ItemSize(it) ==
    CASE it.code = "s" -> it.count
      [] it.code = "x" -> it.count
      [] it.code = "I" -> 4 * it.count
      [] it.code = "Q" -> 8 * it.count

RECURSIVE CalcSize(_)
CalcSize(fmt) ==
    IF fmt = <<>> THEN 0 ELSE ItemSize(Head(fmt)) + CalcSize(Tail(fmt))

RECURSIVE UnpackFrom(_, _, _)
UnpackFrom(fmt, b, pos) ==
    IF fmt = <<>> THEN <<>>
    ELSE LET it   == Head(fmt)
             rest == UnpackFrom(Tail(fmt), b, pos + ItemSize(it))
             raw  == SubSeq(b, pos + 1, pos + ItemSize(it))
         IN  CASE it.code = "x" -> rest
               [] it.code = "s" -> <<raw>> \o rest
               [] it.code = "I" -> <<UnpackU32(raw)>> \o rest
               [] it.code = "Q" -> <<raw>> \o rest

\* struct.error unless the buffer has exactly the format's size.
StructUnpack(fmt, b) ==
    IF Len(b) # CalcSize(fmt) THEN [raised |-> TRUE, values |-> <<>>]
    ELSE [raised |-> FALSE, values |-> UnpackFrom(fmt, b, 0)]

-----------------------------------------------------------------------------
(* parse_prefetch, lines 18-59 *)

None == "None"

ReturnOutcome(value, line) == [kind |-> "return", value |-> value, line |-> line]
RaiseOutcome(error, line) == [kind |-> "raise", value |-> error, line |-> line]

\* What the caller of parse_prefetch can observe of an outcome.
Observable(outcome) == [kind |-> outcome.kind, value |-> outcome.value]

\* '<4sI12xI48x4x', '<I16xQ', '<I4xI4xI', '<Q', '<I', '<II'
HeaderFormat == <<Item("s", 4), Item("I", 1), Item("x", 12), Item("I", 1),
                  Item("x", 48), Item("x", 4)>>
RunFormat == <<Item("I", 1), Item("x", 16), Item("Q", 1)>>
VolumeDescFormat == <<Item("I", 1), Item("x", 4), Item("I", 1), Item("x", 4),
                      Item("I", 1)>>

\* b'SCCA'
Magic == <<83, 67, 67, 65>>

\* os.path.basename: what follows the last "/".
RECURSIVE Basename(_)
Basename(path) ==
    IF \E i \in 1..Len(path) : path[i] = "/"
    THEN Basename(Tail(path))
    ELSE path

\* Line 20
HeaderTooShort_Magic(header) == Len(header) < 4

HeaderTooShort(header) == Len(header) < 84

\* Line 21 and line 25
ShortHeaderOutcome == ReturnOutcome(None, 21)
BadMagicOutcome == ReturnOutcome(None, 25)

\* Lines 43-59; v holds the values lines 29-41 have extracted.
ParseFileList(path, content, volume_data, v) ==
    LET u44 == StructUnpack(<<Item("I", 1), Item("I", 1)>>,
                            PySlice(volume_data, 20, 28))
    IN  IF u44.raised THEN RaiseOutcome("struct.error", 44)
        ELSE LET file_list_offset == u44.values[1]
                 file_list_size == u44.values[2]
                 file_list_data == PySlice(content, file_list_offset,
                                           file_list_offset + file_list_size)
                 file_list == parse_accessed_files(file_list_data)
             IN  IF file_list.raised THEN RaiseOutcome("struct.error", 86)
                 ELSE ReturnOutcome([executable_name |-> Basename(path),
                              run_count |-> v.run_count,
                              last_run_time |-> v.last_run_time,
                              volume_creation_time |-> v.volume_creation_time,
                              file_reference |-> v.file_reference,
                              volume_serial_number |-> v.volume_serial_number,
                              accessed_files |-> file_list.files], 59)

\* Lines 33-41
ParseVolume(path, content, run_count, last_run_time) ==
    LET u35 == StructUnpack(VolumeDescFormat, PySlice(content, 84, 104))
    IN  IF u35.raised THEN RaiseOutcome("struct.error", 35)
        ELSE LET volume_info_offset == u35.values[1]
                 volume_info_size == u35.values[2]
                 volume_data == PySlice(content, volume_info_offset,
                                        volume_info_offset + volume_info_size)
                 u38 == StructUnpack(<<Item("Q", 1)>>, PySlice(volume_data, 0, 8))
                 t39 == convert_windows_timestamp(u38.values[1])
                 u40 == StructUnpack(<<Item("Q", 1)>>, PySlice(volume_data, 8, 16))
                 u41 == StructUnpack(<<Item("I", 1)>>, PySlice(volume_data, 16, 20))
             IN  IF u38.raised THEN RaiseOutcome("struct.error", 38)
                 ELSE IF t39.raised THEN RaiseOutcome("OverflowError", 39)
                 ELSE IF u40.raised THEN RaiseOutcome("struct.error", 40)
                 ELSE IF u41.raised THEN RaiseOutcome("struct.error", 41)
                 ELSE ParseFileList(path, content, volume_data,
                          [run_count |-> run_count,
                           last_run_time |-> last_run_time,
                           volume_creation_time |-> t39.value,
                           file_reference |-> u40.values[1],
                           volume_serial_number |-> u41.values[1]])

\* Lines 27-31
ParseBody(path, content, header) ==
    LET u29 == StructUnpack(RunFormat, PySlice(header, 16, 40))
    IN  IF u29.raised THEN RaiseOutcome("struct.error", 29)
        ELSE LET t31 == convert_windows_timestamp(u29.values[2])
             IN  IF t31.raised THEN RaiseOutcome("OverflowError", 31)
                 ELSE ParseVolume(path, content, u29.values[1], t31.value)

\* Lines 18-25.  Line 23 unpacks header[:64] with a format of 76 bytes into
\* four names.
parse_prefetch(path, content) ==
    LET header == PySlice(content, 0, 84)
    IN  IF HeaderTooShort(header) THEN ShortHeaderOutcome
        ELSE LET u23 == StructUnpack(HeaderFormat, PySlice(header, 0, 64))
             IN  IF u23.raised THEN RaiseOutcome("struct.error", 23)
                 ELSE IF Len(u23.values) # 4 THEN RaiseOutcome("ValueError", 23)
                 ELSE IF u23.values[1] # Magic THEN BadMagicOutcome
                 ELSE ParseBody(path, content, header)

-----------------------------------------------------------------------------
(* The files on disk *)

Zeros(n) == [i \in 1..n |-> 0]

\* A Prefetch file laid out as the decoder reads it: magic at 0, run count
\* at 16, last run time at 36, the volume descriptor at 84 (offset) and 92
\* (size), the volume data block, then the accessed-file stream.
BuildFile(f) ==
    LET stream == Concat(f.records)
    IN  f.magic \o PackU32(f.version) \o Zeros(8)
        \o PackU32(f.run_count) \o Zeros(16) \o f.last_run \o Zeros(40)
        \o PackU32(104) \o Zeros(4) \o PackU32(f.volume_size) \o Zeros(4)
        \o PackU32(0)
        \o f.creation \o f.file_reference \o PackU32(f.serial)
        \o PackU32(132) \o PackU32(Len(stream))
        \o stream

UnixEpochRaw == <<0, 128, 62, 213, 222, 177, 157, 1>>

SampleA == CHOOSE s \in Samples : s.bytes = <<65, 0>>
SampleB == CHOOSE s \in Samples : s.bytes = <<66, 0>>
SampleEmpty == CHOOSE s \in Samples : s.bytes = <<>>

Fields1 ==
    [magic |-> Magic, version |-> 23, run_count |-> 7,
     last_run |-> UnixEpochRaw, volume_size |-> 28,
     creation |-> Zeros(8), file_reference |-> <<1, 2, 3, 4, 5, 6, 7, 8>>,
     serial |-> 4660, records |-> <<SampleA, SampleEmpty, SampleB, SampleA>>]

Fields2 ==
    [Fields1 EXCEPT !.run_count = 0, !.records = <<>>, !.serial = 1,
                    !.file_reference = <<255, 0, 0, 0, 0, 0, 0, 128>>,
                    !.last_run = Zeros(8), !.creation = UnixEpochRaw]

\* The record a well-formed file stands for (the timestamps as Python
\* prints them).
Expected(name, f, last_run_text, creation_text) ==
    [executable_name |-> name,
     run_count |-> f.run_count,
     last_run_time |-> last_run_text,
     volume_creation_time |-> creation_text,
     file_reference |-> f.file_reference,
     volume_serial_number |-> f.serial,
     accessed_files |-> Names(f.records)]

PfName(c) == <<c, ".", "p", "f">>

Entry(name, bytes, shape, expected) ==
    [name |-> name, bytes |-> bytes, shape |-> shape, expected |-> expected]

\* shape: "wellformed", "notprefetch" (the first 4 bytes are not SCCA),
\* "truncated" (shorter than 84 bytes), "shortvolume" (fewer bytes from the
\* volume offset on than the declared size), "timestamp" (a FILETIME past
\* year 9999), "other" (not a .pf file).
DiskEntries == {
    Entry(PfName("a"), BuildFile(Fields1), "wellformed",
          Expected(PfName("a"), Fields1,
                   "1970-01-01 00:00:00", "1601-01-01 00:00:00")),
    Entry(PfName("b"), BuildFile(Fields2), "wellformed",
          Expected(PfName("b"), Fields2,
                   "1601-01-01 00:00:00", "1970-01-01 00:00:00")),
    Entry(PfName("c"), BuildFile([Fields1 EXCEPT !.magic = <<77, 65, 77, 4>>]),
          "notprefetch", None),
    Entry(PfName("d"), <<77, 90, 144, 0>>, "notprefetch", None),
    Entry(PfName("e"), <<>>, "truncated", None),
    Entry(PfName("f"), SubSeq(BuildFile(Fields1), 1, 83), "truncated", None),
    Entry(PfName("g"), SubSeq(BuildFile(Fields1), 1, 120), "shortvolume", None),
    Entry(PfName("h"), BuildFile([Fields1 EXCEPT !.volume_size = 200]),
          "shortvolume", None),
    Entry(PfName("i"),
          BuildFile([Fields1 EXCEPT !.last_run = [k \in 1..8 |-> 255]]),
          "timestamp", None),
    Entry(<<"n", ".", "t", "x", "t">>, BuildFile(Fields1), "other", None) }

\* The largest number of files in the input folder.
MaxFiles == 3

-----------------------------------------------------------------------------
(* process_prefetch_files, lines 101-117 *)

\* file.endswith('.pf')
EndsWithPf(name) ==
    Len(name) >= 3 /\ SubSeq(name, Len(name) - 2, Len(name)) = <<".", "p", "f">>

\* os.path.join(root, file)
InputFolder == <<"i", "n">>
Join(root, file) == root \o <<"/">> \o file

BInit ==
    /\ disk \in UNION {[1..n -> DiskEntries] : n \in 0..MaxFiles}
    /\ prefetch_files = <<>>
    /\ cursor = 0
    /\ prefetch_data = <<>>
    /\ last = [file |-> 0, outcome |-> ReturnOutcome(None, 0)]
    /\ bpc = "walk"
    /\ AFIdle /\ TSIdle

\* Lines 101-107: the .pf files of the tree, in the order they are met.
Walk ==
    /\ bpc = "walk"
    /\ prefetch_files' =
           SelectSeq([i \in 1..Len(disk) |-> i], LAMBDA i : EndsWithPf(disk[i].name))
    /\ cursor' = 1
    /\ prefetch_data' = <<>>
    /\ bpc' = "loop"
    /\ UNCHANGED <<disk, last, afVars, tsVars>>

Current == disk[prefetch_files[cursor]]
CurrentOutcome == parse_prefetch(Join(InputFolder, Current.name), Current.bytes)

\* Lines 109-112: parse_prefetch returns; a dict is kept, None is not.
VisitFile ==
    /\ bpc = "loop"
    /\ cursor <= Len(prefetch_files)
    /\ CurrentOutcome.kind = "return"
    /\ last' = [file |-> prefetch_files[cursor], outcome |-> CurrentOutcome]
    /\ prefetch_data' = IF CurrentOutcome.value # None
                        THEN Append(prefetch_data, CurrentOutcome.value)
                        ELSE prefetch_data
    /\ cursor' = cursor + 1
    /\ UNCHANGED <<disk, prefetch_files, bpc, afVars, tsVars>>

\* Line 110: parse_prefetch raises; nothing catches the exception and
\* process_prefetch_files ends with it.
VisitRaises ==
    /\ bpc = "loop"
    /\ cursor <= Len(prefetch_files)
    /\ CurrentOutcome.kind = "raise"
    /\ last' = [file |-> prefetch_files[cursor], outcome |-> CurrentOutcome]
    /\ bpc' = "aborted"
    /\ UNCHANGED <<disk, prefetch_files, cursor, prefetch_data, afVars, tsVars>>

\* Lines 114-117: the rows are written and the message printed.
WriteCsv ==
    /\ bpc = "loop"
    /\ cursor > Len(prefetch_files)
    /\ bpc' = "done"
    /\ UNCHANGED <<disk, prefetch_files, cursor, prefetch_data, last, afVars, tsVars>>

BNext == Walk \/ VisitFile \/ VisitRaises \/ WriteCsv

SpecBatch == BInit /\ [][BNext]_vars

-----------------------------------------------------------------------------
(* Claims about parse_accessed_files *)

\* C5: a buffer of complete records followed by 1 to 3 stray bytes is
\* parsed without error: the call returns the complete records' entries and
\* drops the stray bytes.
C5_TrailingBytesDiscarded ==
    (AFTerminal /\ tail.kind = "stray") =>
        (afpc = "returned" /\ files = Names(recs))

\* C6: an empty buffer gives an empty list, and a buffer of n complete
\* records gives exactly n entries in on-disk order, one per record, an
\* empty record (L = 0) as an empty string and duplicates kept.
C6_CompleteRecords ==
    (AFTerminal /\ tail.kind = "none") =>
        (afpc = "returned" /\ Len(files) = Len(recs) /\ files = Names(recs))

C6_Witness ==
    /\ afpc = "returned" /\ tail.kind = "none"
    /\ Len(recs) = 2 /\ recs[1].bytes = <<>> /\ recs[2].bytes = <<>>
    /\ files = << <<>>, <<>> >>

\* C7: the parser never reads past the buffer.  The unconsumed part is
\* always a suffix of the buffer (the cursor stays within it); a last record
\* declaring more bytes than are left yields the entry of the bytes that are
\* there and ends the parse; a last record declaring exactly the bytes left
\* is the last entry of a successful parse.
C7_NoReadPastEnd ==
    /\ afpc # "idle" =>
          /\ Len(data) <= Len(buf)
          /\ data = SubSeq(buf, Len(buf) - Len(data) + 1, Len(buf))
    /\ (AFTerminal /\ tail.kind = "short") =>
          /\ afpc = "returned"
          /\ files = Names(recs) \o <<tail.name>>
          /\ data = <<>>
    /\ (AFTerminal /\ tail.kind = "none" /\ recs # <<>>) =>
          /\ afpc = "returned"
          /\ files[Len(files)] = recs[Len(recs)].name

C7_Witness ==
    /\ afpc = "returned" /\ tail.kind = "short"
    /\ recs # <<>> /\ tail.name = <<65>>
    /\ files[Len(files)] = <<65>>

\* C10: the call ends on every buffer: an iteration that does not end the
\* call shortens the remaining data by min(remaining, 4 + L) >= 1 bytes, the
\* entries number at most ceil(len / 4) (so at most len), and the call
\* reaches its end.
C10_Terminates ==
    /\ [][ afpc # "loop" \/ AFTerminal' \/
           /\ Len(data') < Len(data)
           /\ Len(data) >= 4
           /\ Len(data) - Len(data') =
                  Min(Len(data), 4 + UnpackU32(SubSeq(data, 1, 4))) ]_vars
    /\ [](4 * Len(files) <= Len(buf) + 3 /\ Len(files) <= Len(buf))
    /\ (afpc = "loop") ~> AFTerminal

C10_Witness ==
    afpc = "returned" /\ Len(files) = 3 /\ Len(buf) > 12

-----------------------------------------------------------------------------
(* Claims about convert_windows_timestamp *)

\* The calendar date `days` days after 1601-01-01, computed from the days
\* since 0000-03-01 (a different route from Ord2ymd).
CivilFromDays(days) ==
    LET z   == days + 584694
        era == z \div 146097
        doe == z % 146097
        yoe == (doe - doe \div 1460 + doe \div 36524 - doe \div 146096) \div 365
        doy == doe - (365 * yoe + yoe \div 4 - yoe \div 100)
        mp  == (5 * doy + 2) \div 153
        m   == IF mp < 10 THEN mp + 3 ELSE mp - 9
    IN  [year  |-> yoe + era * 400 + (IF m <= 2 THEN 1 ELSE 0),
         month |-> m,
         day   |-> doy - (153 * mp + 2) \div 5 + 1]

\* floor(raw / 10^7), and its split into days and second of the day.
WholeSeconds(raw) == BigDivMod(BigDivMod(raw, 10000).q, 1000).q
DaysOf(raw) == BigToInt(BigDivMod(WholeSeconds(raw), 86400).q)
SecondOfDay(raw) == BigDivMod(WholeSeconds(raw), 86400).r

\* The last day datetime can represent, 9999-12-31, counted from 1601-01-01.
LastDay == MaxOrdinal - EpochOrdinal

\* Values computed with Python itself.
TimestampVectors == {
    [raw |-> <<0, 0, 0, 0, 0, 0, 0, 0>>, out |-> "1601-01-01 00:00:00"],
    [raw |-> <<0, 128, 62, 213, 222, 177, 157, 1>>, out |-> "1970-01-01 00:00:00"],
    [raw |-> <<127, 150, 152, 0, 0, 0, 0, 0>>, out |-> "1601-01-01 00:00:00"],
    [raw |-> <<128, 150, 152, 0, 0, 0, 0, 0>>, out |-> "1601-01-01 00:00:01"],
    [raw |-> <<255, 63, 29, 91, 154, 139, 3, 0>>, out |-> "1604-02-29 23:59:59"],
    [raw |-> <<10, 232, 233, 214, 66, 44, 111, 0>>, out |-> "1700-03-01 01:00:00"],
    [raw |-> <<9, 96, 1, 129, 172, 130, 191, 1>>, out |-> "2000-02-29 12:00:00"],
    [raw |-> <<255, 63, 192, 209, 94, 90, 200, 36>>, out |-> "9999-12-31 23:59:59"],
    [raw |-> <<128, 47, 19, 104, 38, 107, 221, 1>>, out |-> "2026-11-03 00:00:59"],
    [raw |-> <<0, 6, 138, 156, 209, 30, 1, 0>>, out |-> "1602-01-01 00:01:00"] }

\* C8: for every FILETIME in the representable range the result is the
\* calendar second floor(raw / 10^7) seconds after 1601-01-01 00:00:00, the
\* sub-second part dropped; convert(0) is 1601-01-01 00:00:00 and
\* convert(116444736000000000) is 1970-01-01 00:00:00.
C8_TimestampConversion ==
    /\ (tspc \in {"returned", "raised"} /\ DaysOf(timestamp) <= LastDay) =>
          LET date == CivilFromDays(DaysOf(timestamp))
              sod  == SecondOfDay(timestamp)
          IN  /\ tspc = "returned"
              /\ ts_out = Pad4(date.year) \o "-" \o Pad2(date.month) \o "-"
                          \o Pad2(date.day) \o " " \o Pad2(sod \div 3600)
                          \o ":" \o Pad2((sod \div 60) % 60)
                          \o ":" \o Pad2(sod % 60)
    /\ tspc \in {"returned", "raised"} =>
          \A v \in TimestampVectors :
              v.raw = timestamp => (tspc = "returned" /\ ts_out = v.out)

C8_Witness ==
    /\ tspc = "returned"
    /\ timestamp = <<0, 128, 62, 213, 222, 177, 157, 1>>
    /\ ts_out = "1970-01-01 00:00:00"

-----------------------------------------------------------------------------
(* Claims about parse_prefetch and process_prefetch_files *)

\* The file of the latest parse_prefetch call.
LastEntry == disk[last.file]

\* The fields the round trip is about.
Claimed(r) ==
    [run_count |-> r.run_count,
     last_run_time |-> r.last_run_time,
     volume_creation_time |-> r.volume_creation_time,
     file_reference |-> r.file_reference,
     volume_serial_number |-> r.volume_serial_number,
     accessed_files |-> r.accessed_files]

\* C1: parse_prefetch on a well-formed Prefetch file returns a record whose
\* run count, last run time, volume creation time, file reference, volume
\* serial number and accessed files (in order) are the values the file was
\* built from.
C1_RoundTrip ==
    (last.file # 0 /\ LastEntry.shape = "wellformed") =>
        /\ last.outcome.kind = "return"
        /\ last.outcome.line = 59
        /\ Claimed(last.outcome.value) = Claimed(LastEntry.expected)

\* C2: on a file whose first 4 bytes are not SCCA, parse_prefetch returns
\* the "not a Prefetch file" outcome: no record and no exception.
C2_SignatureGate ==
    (last.file # 0 /\ PySlice(LastEntry.bytes, 0, 4) # Magic) =>
        Observable(last.outcome) = [kind |-> "return", value |-> None]

\* The records of the well-formed .pf files of the folder, in order.
WellFormedRecords ==
    LET good == SelectSeq([i \in 1..Len(disk) |-> i],
                    LAMBDA i : EndsWithPf(disk[i].name)
                               /\ disk[i].shape = "wellformed")
    IN  [k \in 1..Len(good) |-> disk[good[k]].expected]

\* C3: no file's decode failure aborts the batch: the loop visits every
\* discovered file and the output is exactly the records of the
\* well-formed files.
C3_BatchIsolation ==
    /\ bpc # "aborted"
    /\ bpc = "done" =>
          /\ cursor = Len(prefetch_files) + 1
          /\ prefetch_data = WellFormedRecords

ShortVolumeBlock(bytes) ==
    /\ Len(bytes) >= 104
    /\ Len(bytes) - Min(UnpackU32(SubSeq(bytes, 85, 88)), Len(bytes))
           < UnpackU32(SubSeq(bytes, 93, 96))

\* C9: on a file with a short volume block decoding fails at the volume
\* block (lines 37-44), and no record is produced.
C9_TruncatedVolumeBlock ==
    (last.file # 0 /\ ShortVolumeBlock(LastEntry.bytes)) =>
        /\ last.outcome.kind = "raise"
        /\ last.outcome.line >= 37
        /\ last.outcome.line <= 44

====
